---- MODULE Spec2Model ----
(***************************************************************************)
(* Kakuro CSP solver (src/main.py): combination generator, Run, Solver.    *)
(* Coordinates are pairs <<x, y>>; a puzzle cell token is -1 for a         *)
(* non-digit marker ("XX"), 0 for a playable cell, n > 0 for a clue.       *)
(***************************************************************************)
EXTENDS Integers, Sequences, FiniteSets, TLC

VARIABLES
    puzzle,          \* the lines of the puzzle file: rows of tokens, <<>> a blank line
    memo,            \* Memoize cache of get_unique_sums: <<target, count>> -> list
    runs,            \* the Run objects, by identity: index -> fields
    unique_runs_h, unique_runs_v,     \* Solver: lists of Run identities
    horizontal_runs, vertical_runs,   \* Solver: coordinate -> Run identity
    width, height,
    solution,        \* Solver.solution: coordinate -> digit
    solution_is_str, \* Solver.solution rebound to a digest string (solve, line 311)
    solutions,       \* Solver.solutions, in insertion order: [key, snap]
    partial,         \* Solver.partial: key -> remaining
    coord_changes,   \* Run.coord_changes (class level): the undo log
    min_remaining,   \* Run.min_remaining (class level)
    digit_coords,    \* Run.digit_coords per Run: digit -> set of coordinates
    iterations, current_filled, last_filled, limit_log2, all_tested,  \* solve locals
    pc,              \* position in Solver.__init__ / solve
    ri,              \* index of the run the current for loop is at
    combos, ci, valid,   \* _test: value_set, index of the next candidate, valid
    eliminated,      \* _test: the flag of the candidate tested last
    printed,         \* what print_solutions wrote: "none" line flag and the records
    exc,             \* the exception that ended the program, "" if none
    gen,             \* a function called on its own: arguments and results
    caller,          \* solve_kakuro: position, whether "solver" is bound, output
    earlier,         \* outcomes of the Solvers that ran earlier in this process
    round_cells      \* history: cells the fill_cells calls of solve assigned in
                     \* the current round (now) and in the round before (before);
                     \* size of the store (entered, -1 if never) and exponent of
                     \* the limit (budget) when the test loop was last begun

(***************************************************************************)
(* Bounds of the model.                                                    *)
(***************************************************************************)
MaxTarget == 45
MaxCount == 4
MaxTotal == 5

Digits == 1..9

(***************************************************************************)
(* Python built-ins used by the program.                                   *)
(***************************************************************************)
ToSet(s) == {s[i] : i \in DOMAIN s}

RECURSIVE SeqSum(_)
SeqSum(s) == IF s = <<>> THEN 0 ELSE Head(s) + SeqSum(Tail(s))

RECURSIVE Insert(_, _)
Insert(v, s) ==
    IF s = <<>> THEN <<v>>
    ELSE IF v <= Head(s) THEN <<v>> \o s
    ELSE <<Head(s)>> \o Insert(v, Tail(s))

\* sorted(list): ascending, duplicates kept
RECURSIVE sorted(_)
sorted(s) == IF s = <<>> THEN <<>> ELSE Insert(Head(s), sorted(Tail(s)))

\* a set of integers as the ascending tuple of its elements
RECURSIVE SortSet(_)
SortSet(S) ==
    IF S = {} THEN <<>>
    ELSE LET m == CHOOSE x \in S : \A y \in S : x <= y
         IN <<m>> \o SortSet(S \ {m})

\* list.remove(v): drops the first occurrence
RECURSIVE Remove(_, _)
Remove(s, v) ==
    IF s = <<>> THEN <<>>
    ELSE IF Head(s) = v THEN Tail(s)
    ELSE <<Head(s)>> \o Remove(Tail(s), v)

(***************************************************************************)
(* Combination generator.                                                  *)
(***************************************************************************)
\* PairSums without the tests "x < 10 and (target - x) < 10"
PairSumsAnyNumber(target, n) ==
    SelectSeq([x \in 1..n |-> <<target - x, x>>], LAMBDA p : p[1] # p[2])

\* [[target - x, x] for x in range(1, target - 1) if ...], x from 1 to n
PairSums(target, n) ==
    SelectSeq([x \in 1..n |-> <<target - x, x>>],
              LAMBDA p : p[1] # p[2] /\ p[2] < 10 /\ p[1] < 10)

\* Extend without the test "x not in sum"
ExtendRepeated(sums, x) ==
    LET keep == SelectSeq(sums, LAMBDA sum : x < 10)
    IN [i \in DOMAIN keep |-> keep[i] \o <<x>>]

\* [sum + [x] for sum in sums if x not in sum and x < 10]
Extend(sums, x) ==
    LET keep == SelectSeq(sums, LAMBDA sum : x \notin ToSet(sum) /\ x < 10)
    IN [i \in DOMAIN keep |-> keep[i] \o <<x>>]

RECURSIVE get_sums(_, _)
RECURSIVE LongSums(_, _, _, _)
\* the loop "for x in range(1, target - 1): sums.extend(...)", x from lo to
\* hi, as the passes of its first half followed by those of its second half
LongSums(target, count, lo, hi) ==
    IF lo > hi THEN <<>>
    ELSE IF lo = hi THEN Extend(get_sums(target - lo, count - 1), lo)
    ELSE LongSums(target, count, lo, (lo + hi) \div 2) \o
         LongSums(target, count, (lo + hi) \div 2 + 1, hi)

get_sums(target, count) ==
    IF count = 2 THEN PairSums(target, target - 2)
    ELSE LongSums(target, count, 1, target - 2)

\* the set of sorted tuples; list(unique_sums) orders it arbitrarily
get_unique_sums(target, count) ==
    LET sums == get_sums(target, count)
    IN {sorted(sums[i]) : i \in DOMAIN sums}

RECURSIVE combinations(_)
RECURSIVE CombosLoop(_, _)
\* the loop "for num in nums", over the first n entries of nums
CombosLoop(nums, n) ==
    IF n < 1 THEN <<>>
    ELSE LET sub == combinations(Remove(nums, nums[n]))
         IN CombosLoop(nums, n - 1) \o
            [i \in DOMAIN sub |-> sub[i] \o <<nums[n]>>]

combinations(nums) ==
    IF Len(nums) = 2 THEN << <<nums[1], nums[2]>>, <<nums[2], nums[1]>> >>
    ELSE CombosLoop(nums, Len(nums))

(***************************************************************************)
(* Memoize and list(set): get_unique_sums returns list(unique_sums), whose *)
(* order the language leaves open, and the same list object is returned    *)
(* for the same arguments from then on: the list is any ordering of the    *)
(* set.  get_unique_sums is called only for sets of at most MaxOrdered     *)
(* tuples where the calls are drawn from all targets and counts.           *)
(***************************************************************************)
MaxOrdered == 6

\* the members of a set one after the other
RECURSIVE SetToSeq(_)
SetToSeq(S) ==
    IF S = {} THEN <<>>
    ELSE LET m == CHOOSE x \in S : TRUE IN <<m>> \o SetToSeq(S \ {m})

RECURSIVE Perms(_)
Perms(S) ==
    IF S = {} THEN {<<>>}
    ELSE UNION {{<<x>> \o q : q \in Perms(S \ {x})} : x \in S}

\* the lists list(unique_sums) can be for get_unique_sums(key[1], key[2])
ListsOf(key) == Perms(get_unique_sums(key[1], key[2]))

\* for every key of keys one of the lists get_unique_sums can return for it
RECURSIVE ListingsOf(_)
ListingsOf(keys) ==
    IF keys = {} THEN {<<>>}
    ELSE LET k == CHOOSE x \in keys : TRUE
         IN {[j \in keys |-> IF j = k THEN l ELSE f[j]] :
                f \in ListingsOf(keys \ {k}), l \in ListsOf(k)}

\* Memoize.__call__ on get_unique_sums: cache is self.memo and listed[args]
\* is what self.f(*args) returns when it is called; the result is the cache
\* afterwards and the value returned
Memoize(cache, listed, target, count) ==
    LET args == <<target, count>>
    IN IF args \in DOMAIN cache THEN [memo |-> cache, value |-> cache[args]]
       ELSE [memo |-> [k \in DOMAIN cache \cup {args} |->
                         IF k = args THEN listed[args] ELSE cache[k]],
             value |-> listed[args]]

(***************************************************************************)
(* Board construction: Run.__init__, Solver.add_run, parse_sequence,       *)
(* Solver.__init__.  b is the Solver under construction, together with     *)
(* the cache of get_unique_sums (memo) and the arguments get_unique_sums   *)
(* was called with (asked); lists gives, for the arguments not yet in the  *)
(* cache, the list get_unique_sums returns.                                *)
(***************************************************************************)
NewSolver ==
    [runs |-> <<>>, unique_runs_h |-> <<>>, unique_runs_v |-> <<>>,
     horizontal_runs |-> <<>>, vertical_runs |-> <<>>,
     width |-> 0, height |-> 0, min_remaining |-> 0,
     memo |-> <<>>, asked |-> {}, exc |-> ""]

RunCoords(start, length, vert) ==
    [x \in 1..length |->
        IF vert THEN <<start[1], start[2] + (x - 1)>>
        ELSE <<start[1] + (x - 1), start[2]>>]

Run__init__(b, total, length, start, vert, lists) ==
    LET Built(call) ==
            LET b1 == [b EXCEPT !.min_remaining = Cardinality(DOMAIN b.horizontal_runs),
                                !.memo = call.memo,
                                !.asked = @ \cup {<<total, length>>}]
            IN IF Len(call.value) = 0 THEN [b1 EXCEPT !.exc = "Exception"]
               ELSE [b1 EXCEPT !.runs = Append(@,
                        [total |-> total, length |-> length, vert |-> vert,
                         coords |-> RunCoords(start, length, vert),
                         sequences |-> call.value])]
    IN Built(Memoize(b.memo, lists, total, length))

\* run_dict[tuple(start)] = run for the length cells from start on
Register(run_dict, coords, id) ==
    [c \in DOMAIN run_dict \cup ToSet(coords) |->
        IF c \in ToSet(coords) THEN id ELSE run_dict[c]]

\* add_run entering the run in the tables whether or not Run.__init__ raised
add_run_eager(b, start, length, total, vert, lists) ==
    IF length = 0 THEN [b EXCEPT !.exc = "Exception"]
    ELSE LET Added(b1, id) ==
                 IF vert
                 THEN [b1 EXCEPT !.unique_runs_v = Append(@, id),
                          !.vertical_runs =
                              Register(@, RunCoords(start, length, vert), id)]
                 ELSE [b1 EXCEPT !.unique_runs_h = Append(@, id),
                          !.horizontal_runs =
                              Register(@, RunCoords(start, length, vert), id)]
             New(b1) == Added(b1, IF b1.exc # "" THEN Len(b1.runs) + 1
                                  ELSE Len(b1.runs))
         IN New(Run__init__(b, total, length, start, vert, lists))

add_run(b, start, length, total, vert, lists) ==
    IF length = 0 THEN [b EXCEPT !.exc = "Exception"]
    ELSE LET Added(b1, id) ==
                 IF b1.exc # "" THEN b1
                 ELSE IF vert
                 THEN [b1 EXCEPT !.unique_runs_v = Append(@, id),
                          !.vertical_runs = Register(@, b1.runs[id].coords, id)]
                 ELSE [b1 EXCEPT !.unique_runs_h = Append(@, id),
                          !.horizontal_runs = Register(@, b1.runs[id].coords, id)]
             New(b1) == Added(b1, Len(b1.runs))
         IN New(Run__init__(b, total, length, start, vert, lists))

\* the loop of parse_sequence at cell p (pitch p - 1)
RECURSIVE ParseLoop(_, _, _, _, _, _, _, _, _)
ParseLoop(b, idx, cells, vert, lists, p, total, start, length) ==
    IF b.exc # "" THEN b
    ELSE IF p > Len(cells)
    THEN IF total # 0 THEN add_run(b, start, length, total, vert, lists) ELSE b
    ELSE IF cells[p] > 0
    THEN ParseLoop(IF total # 0
                   THEN add_run(b, start, length, total, vert, lists) ELSE b,
                   idx, cells, vert, lists, p + 1, cells[p],
                   IF vert THEN <<idx, p>> ELSE <<p, idx>>, 0)
    ELSE IF cells[p] = 0
    THEN ParseLoop(b, idx, cells, vert, lists, p + 1, total, start, length + 1)
    ELSE ParseLoop(b, idx, cells, vert, lists, p + 1, total, start, length)

parse_sequence(b, idx, cells, vert, lists) ==
    ParseLoop(b, idx, cells, vert, lists, 1, 0, <<>>, 0)

\* "for idx, column in enumerate(columns)", from column n on
RECURSIVE ParseColumns(_, _, _, _)
ParseColumns(b, columns, n, lists) ==
    IF b.exc # "" \/ n > Len(columns) THEN b
    ELSE ParseColumns(parse_sequence(b, n - 1, columns[n], TRUE, lists),
                      columns, n + 1, lists)

\* "for line_no, line in enumerate(in_file)", from line n on
RECURSIVE InitLoop(_, _, _, _, _, _)
InitLoop(b, lines, n, vert, columns, lists) ==
    IF b.exc # "" THEN b
    ELSE IF n > Len(lines)
    THEN IF columns # <<>>
         THEN ParseColumns([b EXCEPT !.height = Len(columns[1])], columns, 1, lists)
         ELSE b
    ELSE IF lines[n] = <<>>
    THEN InitLoop(b, lines, n + 1, TRUE, columns, lists)
    ELSE LET cells == lines[n]
             b1 == [b EXCEPT !.width = Len(cells)]
             cols0 == IF Len(columns) = 0 THEN [i \in DOMAIN cells |-> <<>>]
                      ELSE columns
         IN IF vert
            THEN IF Len(cells) > Len(cols0)
                 THEN [b1 EXCEPT !.exc = "IndexError"]
                 ELSE InitLoop(b1, lines, n + 1, vert,
                               [i \in DOMAIN cols0 |->
                                   IF i <= Len(cells) THEN Append(cols0[i], cells[i])
                                   ELSE cols0[i]],
                               lists)
            ELSE InitLoop(parse_sequence(b1, n - 1, cells, FALSE, lists),
                          lines, n + 1, vert, columns, lists)

\* Solver(lines) when the cache of get_unique_sums is cache
Solver__init__(lines, cache, lists) ==
    InitLoop([NewSolver EXCEPT !.memo = cache], lines, 1, FALSE, <<>>, lists)

\* a listing of every key, to find the keys Solver(lines) asks for
AnyListing == [k \in Int \X Int |-> CHOOSE l \in ListsOf(k) : TRUE]

\* the arguments Solver(lines) calls get_unique_sums with
AskedBy(lines, cache) == Solver__init__(lines, cache, AnyListing).asked

(***************************************************************************)
(* Run.  r is a Run identity; m is the mutable state a call works on:      *)
(* sol (Solver.solution), log (Run.coord_changes), dc (digit_coords of     *)
(* every Run), ret (the value returned) and exc (an exception raised).     *)
(* The other fields are history: stack holds the fill_cells calls that     *)
(* are active, each with its run and the candidate cells (cand) it worked  *)
(* out per digit; deep is the largest depth the stack reached; missed and  *)
(* alien collect the <<digit, cell>> pairs _fill_unique left out or        *)
(* assigned without a candidate of the call; dead is set once a call       *)
(* returned -1 and late once anything ran on after that.                   *)
(***************************************************************************)
Frame(sol, log, dc) ==
    [sol |-> sol, log |-> log, dc |-> dc, ret |-> 0, exc |-> "",
     stack |-> <<>>, deep |-> 0, missed |-> {}, alien |-> {},
     dead |-> FALSE, late |-> FALSE]

\* the table of the run's own orientation in the place of self.intersect
intersect_own(r) == IF runs[r].vert THEN vertical_runs ELSE horizontal_runs

intersect(r) == IF runs[r].vert THEN horizontal_runs ELSE vertical_runs

\* _get_found: the digits already found, in cell order
_get_found(r, sol) ==
    LET coords == runs[r].coords
        at == SelectSeq(coords, LAMBDA c : c \in DOMAIN sol)
    IN [i \in DOMAIN at |-> sol[at[i]]]

RECURSIVE DigitsLoop(_, _, _, _, _)
\* "for sequence in self.sequences", from sequence n on
DigitsLoop(sequences, n, found_digits, all_digits, required_digits) ==
    IF n > Len(sequences)
    THEN [all |-> all_digits \ found_digits,
          required |-> required_digits \ found_digits]
    ELSE IF found_digits \subseteq ToSet(sequences[n]) \/ Cardinality(found_digits) = 0
    THEN DigitsLoop(sequences, n + 1, found_digits,
                    all_digits \cup ToSet(sequences[n]),
                    required_digits \cap ToSet(sequences[n]))
    ELSE DigitsLoop(sequences, n + 1, found_digits, all_digits, required_digits)

get_digits(r, sol) ==
    DigitsLoop(runs[r].sequences, 1, ToSet(_get_found(r, sol)), {},
               ToSet(runs[r].sequences[1]))

add_found(m, coord, found) ==
    [m EXCEPT !.sol = [c \in DOMAIN m.sol \cup {coord} |->
                          IF c = coord THEN found ELSE m.sol[c]],
              !.log = Append(m.log, coord),
              !.late = @ \/ m.dead]

\* undo popping a single entry of the log
undo_once(m, guess_coord) ==
    IF Len(m.log) = 0 THEN [m EXCEPT !.exc = "IndexError"]
    ELSE LET coord == m.log[Len(m.log)]
             log1 == SubSeq(m.log, 1, Len(m.log) - 1)
         IN IF coord \notin DOMAIN m.sol
            THEN [m EXCEPT !.log = log1, !.exc = "KeyError"]
            ELSE [m EXCEPT !.log = log1,
                           !.sol = [c \in DOMAIN m.sol \ {coord} |-> m.sol[c]]]

\* undo popping down to the oldest entry of the log for guess_coord
RECURSIVE undo_oldest(_, _)
undo_oldest(m, guess_coord) ==
    IF Len(m.log) = 0 THEN [m EXCEPT !.exc = "IndexError"]
    ELSE LET coord == m.log[Len(m.log)]
             log1 == SubSeq(m.log, 1, Len(m.log) - 1)
         IN IF coord \notin DOMAIN m.sol
            THEN [m EXCEPT !.log = log1, !.exc = "KeyError"]
            ELSE LET m1 == [m EXCEPT !.log = log1,
                                     !.sol = [c \in DOMAIN m.sol \ {coord} |-> m.sol[c]]]
                 IN IF coord = guess_coord /\ guess_coord \notin ToSet(log1)
                    THEN m1 ELSE undo_oldest(m1, guess_coord)

RECURSIVE undo(_, _)
undo(m, guess_coord) ==
    IF Len(m.log) = 0 THEN [m EXCEPT !.exc = "IndexError"]
    ELSE LET coord == m.log[Len(m.log)]
             log1 == SubSeq(m.log, 1, Len(m.log) - 1)
         IN IF coord \notin DOMAIN m.sol
            THEN [m EXCEPT !.log = log1, !.exc = "KeyError"]
            ELSE LET m1 == [m EXCEPT !.log = log1,
                                     !.sol = [c \in DOMAIN m.sol \ {coord} |-> m.sol[c]]]
                 IN IF coord = guess_coord THEN m1 ELSE undo(m1, guess_coord)

FreshDigitCoords == [d \in Digits |-> {}]

RECURSIVE FillUniqueLoop(_, _, _, _, _)
\* "for digit, coords in self.digit_coords.items()", from digit on
FillUniqueLoop(m, r, required_digits, digit, count) ==
    IF digit > 9 THEN [m EXCEPT !.ret = count]
    ELSE LET coords == m.dc[r][digit]
         IN IF Cardinality(coords) = 1 /\ digit \in required_digits
            THEN LET coord == CHOOSE c \in coords : TRUE
                     m1 == [m EXCEPT !.dc[r][digit] = {}]
                 IN IF coord \notin DOMAIN m1.sol
                    THEN FillUniqueLoop(add_found(m1, coord, digit), r,
                                        required_digits, digit + 1, count + 1)
                    ELSE FillUniqueLoop(m1, r, required_digits, digit + 1, count)
            ELSE FillUniqueLoop(m, r, required_digits, digit + 1, count)

\* _fill_unique counting every digit whose single cell it popped
_fill_unique_popped(m, r, required_digits) ==
    [FillUniqueLoop(m, r, required_digits, 1, 0) EXCEPT !.ret =
        Cardinality({d \in required_digits : Cardinality(m.dc[r][d]) = 1})]

_fill_unique(m, r, required_digits) == FillUniqueLoop(m, r, required_digits, 1, 0)

\* history: a fill_cells call on run r begins
Enter(m, r) ==
    [m EXCEPT !.stack = Append(@, [run |-> r, cand |-> FreshDigitCoords]),
              !.deep = IF Len(m.stack) + 1 > @ THEN Len(m.stack) + 1 ELSE @,
              !.late = @ \/ m.dead]

\* history: a fill_cells call ends, by a return or by an exception
Leave(m) ==
    [m EXCEPT !.stack = SubSeq(@, 1, Len(@) - 1),
              !.late = @ \/ (m.dead /\ m.exc = "" /\ m.ret # -1),
              !.dead = @ \/ (m.exc = "" /\ m.ret = -1)]

\* history: the call in progress found the digits of common possible at coord
Noted(m, common, coord) ==
    [m EXCEPT !.stack[Len(m.stack)].cand =
                 [d \in Digits |-> IF d \in common THEN @[d] \cup {coord} ELSE @[d]]]

\* history: what _fill_unique made of the candidates of the call in progress,
\* m being the frame it was called on and u the frame it returned
Audit(m, u, required_digits) ==
    LET cand == m.stack[Len(m.stack)].cand
        Open(d) == {c \in cand[d] : c \notin DOMAIN m.sol}
    IN [u EXCEPT !.missed = @ \cup
                    {p \in required_digits \X DOMAIN horizontal_runs :
                        /\ Open(p[1]) = {p[2]}
                        /\ ~(p[2] \in DOMAIN u.sol /\ u.sol[p[2]] = p[1])},
                 !.alien = @ \cup
                    {p \in Digits \X (DOMAIN u.sol \ DOMAIN m.sol) :
                        /\ u.sol[p[2]] = p[1]
                        /\ p[2] \notin cand[p[1]]}]

\* a recursive call whose -1 is never taken for a contradiction
Unheeded(m) == FALSE

\* "self.intersect[coord].fill_cells(test) == -1", m being the frame the
\* recursive call returned
Contradicted(m) == m.ret = -1

RECURSIVE fill_cells(_, _, _)
RECURSIVE FillLoop(_, _, _, _, _, _, _)
\* "for coord in self.coords", from cell i on
FillLoop(m, r, test, i, digits1, digits2, filled_count) ==
    IF i > Len(runs[r].coords)
    THEN LET Sum(u) == [Audit(m, u, digits2) EXCEPT !.ret = filled_count + u.ret]
         IN Sum(_fill_unique(m, r, digits2))
    ELSE LET coord == runs[r].coords[i]
         IN IF coord \in DOMAIN m.sol
            THEN FillLoop(m, r, test, i + 1, digits1, digits2, filled_count)
            ELSE IF coord \notin DOMAIN intersect(r)
            THEN [m EXCEPT !.exc = "KeyError"]
            ELSE LET other == intersect(r)[coord]
                     Cell(common, one, found) ==
                         LET m1 == IF one THEN add_found(m, coord, found)
                                   ELSE [Noted(m, common, coord) EXCEPT !.dc[r] =
                                           [d \in Digits |->
                                               IF d \in common THEN @[d] \cup {coord}
                                               ELSE @[d]]]
                             d2 == IF one THEN digits2 \ {found} ELSE digits2
                             f1 == IF one THEN filled_count + 1 ELSE filled_count
                             Rest(m2) ==
                                 IF m2.exc # "" THEN m2
                                 ELSE IF Contradicted(m2) THEN m2
                                 ELSE FillLoop(m2, r, test, i + 1, digits1, d2, f1)
                         IN IF Cardinality(common) = 0 THEN [m EXCEPT !.ret = -1]
                            ELSE IF test /\ f1 # 0
                            THEN Rest(fill_cells(m1, other, test))
                            ELSE FillLoop(m1, r, test, i + 1, digits1, d2, f1)
                     Common(common) ==
                         Cell(common, Cardinality(common) = 1,
                              CHOOSE d \in common : TRUE)
                 IN Common(get_digits(other, m.sol).all \cap digits1)

fill_cells(m, r, test) ==
    LET m0 == [Enter(m, r) EXCEPT !.dc[r] = FreshDigitCoords]
        Fill(found, digits) ==
            IF Len(found) # Cardinality(ToSet(found)) THEN [m0 EXCEPT !.ret = -1]
            ELSE FillLoop(m0, r, test, 1, digits.all, digits.required, 0)
    IN Leave(Fill(_get_found(r, m0.sol), get_digits(r, m0.sol)))

(***************************************************************************)
(* Solution records: Solver.add_solution and Solver.print_solutions.       *)
(***************************************************************************)
\* list(self.solution.values())
Values(sol) ==
    LET cs == SetToSeq(DOMAIN sol) IN [i \in DOMAIN cs |-> sol[cs[i]]]

\* a digest of the whole coordinate -> digit mapping
hexdigest_of_items(sol) == sol

\* md5(str(sorted(self.solution.values()))).hexdigest(): the digest stands
\* for the text it is computed from, the sorted list of assigned digits
hexdigest(sol) == sorted(Values(sol))

HexDigestLen == 32

Keys(sols) == {sols[i].key : i \in DOMAIN sols}

add_solution(sol, sols, part, remaining) ==
    LET key == hexdigest(sol)
    IN IF key \notin Keys(sols)
       THEN [solutions |-> Append(sols, [key |-> key, snap |-> sol]),
             partial |-> IF remaining > 0
                         THEN [k \in DOMAIN part \cup {key} |->
                                  IF k = key THEN remaining ELSE part[k]]
                         ELSE part,
             new_solution |-> TRUE]
       ELSE [solutions |-> sols, partial |-> part, new_solution |-> FALSE]

\* print_solutions without the "continue" of lines 334-335
print_every_record(sols, part, minrem) == sols

\* the records print_solutions writes a grid for, in order
print_solutions(sols, part, minrem) ==
    SelectSeq(sols, LAMBDA e : ~(e.key \in DOMAIN part /\ minrem # part[e.key]))

(***************************************************************************)
(* Run.test_possibilities and Run._test.                                   *)
(***************************************************************************)
\* list(a set of digits): a set lists its members in hash-table order; a digit
\* hashes to itself and a table has 8 slots or more, so digits below 8 come
\* in ascending order, while 8 and 9 wrap around or collide with 1
ListOrders(S) == IF S \subseteq 1..7 THEN {SortSet(S)} ELSE Perms(S)

\* remaining and length after "for coord in self.coords" of test_possibilities
Residual(r, sol) ==
    LET found == _get_found(r, sol)
    IN [remaining |-> runs[r].total - SeqSum(found),
        length |-> runs[r].length - Len(found)]

\* combos of test_possibilities, required_list being list(required)
\* the arguments test_possibilities calls get_unique_sums with: those of
\* "sub_sequences = get_unique_sums(remaining, length)", or none
SubSequences(r, sol) ==
    LET Asked(d, res) ==
            IF Cardinality(d.all) = Cardinality(d.required) /\ Cardinality(d.all) > 0
            THEN {}
            ELSE IF res.length = 2 THEN {<<res.remaining, res.length>>}
            ELSE {}
    IN Asked(get_digits(r, sol), Residual(r, sol))

\* get_unique_sums.memo after test_possibilities of r
Cached(cache, listed, r, sol) ==
    IF SubSequences(r, sol) = {} THEN cache
    ELSE LET args == CHOOSE k \in SubSequences(r, sol) : TRUE
         IN Memoize(cache, listed, args[1], args[2]).memo

Candidates(r, sol, required_list) ==
    LET Combos(d, res) ==
            IF Cardinality(d.all) = Cardinality(d.required) /\ Cardinality(d.all) > 0
            THEN combinations(required_list)
            ELSE IF res.length = 2 THEN get_sums(res.remaining, res.length)
            ELSE <<>>
    IN Combos(get_digits(r, sol), Residual(r, sol))

\* len(combos) < limit, limit being 2 ^ log2
BelowLimit(n, log2) == log2 >= 30 \/ n < 2 ^ log2

\* len(combos) <= limit, limit being 2 ^ log2
WithinLimit(n, log2) == log2 >= 30 \/ n <= 2 ^ log2

RECURSIVE AssignLoop(_, _, _, _, _, _)
\* "for run_coord in self.coords" of _test, from cell i on
AssignLoop(m, r, values, i, idx, test_coords) ==
    IF i > Len(runs[r].coords) THEN [m |-> m, test_coords |-> test_coords]
    ELSE LET run_coord == runs[r].coords[i]
         IN IF run_coord \in DOMAIN m.sol
            THEN AssignLoop(m, r, values, i + 1, idx, test_coords)
            ELSE IF idx > Len(values)
            THEN [m |-> [m EXCEPT !.exc = "IndexError"], test_coords |-> test_coords]
            ELSE AssignLoop(add_found(m, run_coord, values[idx]), r, values,
                            i + 1, idx + 1, Append(test_coords, run_coord))

RECURSIVE PropagateLoop(_, _, _, _)
\* "for test_coord in test_coords", from entry k on; ret -1 when eliminated
PropagateLoop(m, r, test_coords, k) ==
    IF k > Len(test_coords) THEN [m EXCEPT !.ret = 0]
    ELSE IF test_coords[k] \notin DOMAIN intersect(r)
    THEN [m EXCEPT !.exc = "KeyError"]
    ELSE LET Rest(m1) ==
                 IF m1.exc # "" \/ m1.ret = -1 THEN m1
                 ELSE PropagateLoop(m1, r, test_coords, k + 1)
         IN Rest(fill_cells(m, intersect(r)[test_coords[k]], TRUE))

\* registration of a record that requires a count below the best one so far
Register_below(r, sol, sols, part, minrem) ==
    LET remaining == Cardinality(DOMAIN intersect(r)) - Cardinality(DOMAIN sol)
        Stored(a, minrem1) ==
            [solutions |-> a.solutions, partial |-> a.partial,
             min_remaining |-> minrem1]
    IN IF remaining = 0 THEN Stored(add_solution(sol, sols, part, 0), 0)
       ELSE IF remaining < minrem
       THEN Stored(add_solution(sol, sols, part, remaining), remaining)
       ELSE [solutions |-> sols, partial |-> part, min_remaining |-> minrem]

\* registration of a record after a candidate was propagated (lines 487-492)
Register_test(r, sol, sols, part, minrem) ==
    LET remaining == Cardinality(DOMAIN intersect(r)) - Cardinality(DOMAIN sol)
        Stored(a, minrem1) ==
            [solutions |-> a.solutions, partial |-> a.partial,
             min_remaining |-> minrem1]
    IN IF remaining = 0 THEN Stored(add_solution(sol, sols, part, 0), 0)
       ELSE IF remaining <= minrem
       THEN Stored(add_solution(sol, sols, part, remaining), remaining)
       ELSE [solutions |-> sols, partial |-> part, min_remaining |-> minrem]

\* one pass of "for values in value_set" of _test
TestCandidate(m, r, values, sols, part, minrem) ==
    LET keep == [solutions |-> sols, partial |-> part, min_remaining |-> minrem]
        Propagated(a, p) ==
            IF a.m.exc # "" THEN [m |-> a.m, eliminated |-> FALSE, reg |-> keep]
            ELSE IF p.exc # "" THEN [m |-> p, eliminated |-> FALSE, reg |-> keep]
            ELSE [m |-> IF a.test_coords # <<>> THEN undo(p, a.test_coords[1]) ELSE p,
                  eliminated |-> (p.ret = -1),
                  reg |-> Register_test(r, p.sol, sols, part, minrem)]
        Assigned(a) == Propagated(a, PropagateLoop(a.m, r, a.test_coords, 1))
    IN Assigned(AssignLoop(m, r, values, 1, 1, <<>>))

\* the end of _test committing the first survivor of one or more
TestCommitFirst(m, r, vld) ==
    IF Len(vld) >= 1 THEN AssignLoop(m, r, vld[1], 1, 1, <<>>).m ELSE m

\* the end of _test: "if len(valid) == 1"
TestCommit(m, r, vld) ==
    IF Len(vld) = 1 THEN AssignLoop(m, r, vld[1], 1, 1, <<>>).m ELSE m

(***************************************************************************)
(* The puzzles solved.  Block(a, b, c, d) is a block of 2 x 2 playable     *)
(* cells beside the row clues a, b and under the column clues c, d;        *)
(* Grid(cols, bands, a, b, c, d) is bands rows of cols such blocks.        *)
(***************************************************************************)
RECURSIVE Repeat(_, _)
Repeat(n, s) == IF n = 0 THEN <<>> ELSE s \o Repeat(n - 1, s)

Grid(cols, bands, a, b, c, d) ==
    Repeat(bands, << Repeat(cols, <<-1, -1, -1>>), Repeat(cols, <<a, 0, 0>>),
                     Repeat(cols, <<b, 0, 0>>) >>)
    \o << <<>> >> \o
    Repeat(bands, << Repeat(cols, <<-1, c, d>>), Repeat(cols, <<-1, 0, 0>>),
                     Repeat(cols, <<-1, 0, 0>>) >>)

Block(a, b, c, d) == Grid(1, 1, a, b, c, d)

\* one row of two playable cells beside the clue a, each cell under a column
\* clue of its own (c, d)
Line(a, c, d) == << <<-1, -1, -1>>, <<a, 0, 0>>, <<>>, <<-1, c, d>>, <<-1, 0, 0>> >>

RECURSIVE Cat(_)
Cat(ss) == IF ss = <<>> THEN <<>> ELSE Head(ss) \o Cat(Tail(ss))

\* bands of blocks side by side, each block given by its clues <<a, b, c, d>>
Tiles(bands) ==
    LET Band(blocks, k) ==
            << Cat([j \in DOMAIN blocks |-> <<-1, -1, -1>>]),
               Cat([j \in DOMAIN blocks |->
                       IF k = 1 THEN <<blocks[j][1], 0, 0>> ELSE <<-1, 0, 0>>]),
               Cat([j \in DOMAIN blocks |->
                       IF k = 1 THEN <<blocks[j][2], 0, 0>> ELSE <<-1, 0, 0>>]) >>
        Clues(blocks) ==
            << Cat([j \in DOMAIN blocks |-> <<-1, blocks[j][3], blocks[j][4]>>]) >>
    IN Cat([i \in DOMAIN bands |-> Band(bands[i], 1)]) \o << <<>> >> \o
       Cat([i \in DOMAIN bands |-> Clues(bands[i]) \o Tail(Band(bands[i], 2))])

\* two rows of Len(cols) playable cells beside the clues a and b, under the
\* column clues cols
Strip(a, b, cols) ==
    LET zeros == [i \in DOMAIN cols |-> 0]
    IN << <<-1>> \o [i \in DOMAIN cols |-> -1], <<a>> \o zeros, <<b>> \o zeros,
          <<>>, <<-1>> \o cols, <<-1>> \o zeros, <<-1>> \o zeros >>

\* ten blocks in two bands, 40 playable cells: the first block is solved by
\* fill_cells alone, the nine others have every clue 3
Forty ==
    Tiles(<< << <<3, 4, 3, 4>> >> \o Repeat(4, << <<3, 3, 3, 3>> >>),
             Repeat(5, << <<3, 3, 3, 3>> >>) >>)

\* every block with clues up to MaxTotal, blocks with larger clues, a board of
\* 36 playable cells, a row crossed by single-cell columns, a strip whose
\* first row needs 1 and 2 in its first cell and a board of 40 playable cells
Puzzles ==
    {Block(a, b, c, d) : a \in 1..MaxTotal, b \in 1..MaxTotal,
                         c \in 1..MaxTotal, d \in 1..MaxTotal}
    \cup {Block(3, 7, 5, 5), Block(6, 6, 7, 5), Grid(3, 3, 3, 3, 3, 3)}
    \cup {Line(3, 1, 2), Block(17, 8, 9, 16), Strip(7, 22, <<3, 13, 13>>), Forty}

MaxRounds == 45

vars == <<puzzle, memo, runs, unique_runs_h, unique_runs_v, horizontal_runs,
          vertical_runs, width, height, solution, solution_is_str, solutions,
          partial, coord_changes, min_remaining, digit_coords, iterations,
          current_filled, last_filled, limit_log2, all_tested, pc, ri, combos,
          ci, valid, eliminated, printed, exc, gen, caller, earlier, round_cells>>

board == <<runs, unique_runs_h, unique_runs_v, horizontal_runs, vertical_runs,
           width, height>>
locals == <<iterations, current_filled, last_filled, limit_log2, all_tested>>
testing == <<combos, ci, valid, eliminated>>
records == <<solutions, partial, min_remaining>>

GenOff == [pc |-> "off", target |-> 0, count |-> 0, sums |-> <<>>,
           unique |-> {}, run |-> NewSolver]

\* no cell assigned in this round nor in the round before, no test loop begun
NoCells == [now |-> 0, before |-> 0, entered |-> -1, budget |-> 0]

\* solve_kakuro inside its try block, "solver" not bound yet, nothing printed
CallerTry == [pc |-> "try", solver |-> FALSE, message |-> "", records |-> <<>>]

Init ==
    /\ puzzle \in Puzzles
    /\ memo = <<>>
    /\ runs = <<>> /\ unique_runs_h = <<>> /\ unique_runs_v = <<>>
    /\ horizontal_runs = <<>> /\ vertical_runs = <<>>
    /\ width = 0 /\ height = 0
    /\ solution = <<>> /\ solution_is_str = FALSE
    /\ solutions = <<>> /\ partial = <<>>
    /\ coord_changes = <<>> /\ min_remaining = 0
    /\ digit_coords = <<>>
    /\ iterations = 0 /\ current_filled = 0 /\ last_filled = 0
    /\ limit_log2 = 0 /\ all_tested = TRUE
    /\ pc = "new" /\ ri = 0
    /\ combos = <<>> /\ ci = 0 /\ valid = <<>> /\ eliminated = FALSE
    /\ printed = [none |-> FALSE, records |-> <<>>]
    /\ exc = ""
    /\ gen = GenOff
    /\ caller = CallerTry
    /\ earlier = <<>>
    /\ round_cells = NoCells

\* the runs of "for run in self.unique_runs_h + self.unique_runs_v"
AllRuns == unique_runs_h \o unique_runs_v

SolutionLen == IF solution_is_str THEN HexDigestLen ELSE Cardinality(DOMAIN solution)

\* solver = Solver(puzzle_file)
SolverInit ==
    /\ pc = "new"
    /\ \E lists \in ListingsOf(AskedBy(puzzle, memo) \ DOMAIN memo) :
       \E b \in {Solver__init__(puzzle, memo, lists)} :
          /\ memo' = b.memo
          /\ runs' = b.runs
          /\ unique_runs_h' = b.unique_runs_h
          /\ unique_runs_v' = b.unique_runs_v
          /\ horizontal_runs' = b.horizontal_runs
          /\ vertical_runs' = b.vertical_runs
          /\ width' = b.width /\ height' = b.height
          /\ min_remaining' = IF b.asked = {} THEN min_remaining ELSE b.min_remaining
          /\ digit_coords' = [r \in DOMAIN b.runs |-> FreshDigitCoords]
          /\ exc' = b.exc
          /\ pc' = IF b.exc = "" THEN "solve" ELSE "raised"
          /\ caller' = [caller EXCEPT !.solver = (b.exc = "")]
    /\ solution' = <<>> /\ solution_is_str' = FALSE
    /\ solutions' = <<>> /\ partial' = <<>>
    /\ UNCHANGED <<puzzle, coord_changes, locals, ri, testing, printed, gen, earlier, round_cells>>

\* solve: lines 294-296
SolveBegin ==
    /\ pc = "solve"
    /\ iterations' = 0 /\ current_filled' = 1 /\ limit_log2' = 1
    /\ pc' = "while"
    /\ UNCHANGED <<puzzle, memo, board, solution, solution_is_str, records,
                   coord_changes, digit_coords, last_filled, all_tested, ri,
                   testing, printed, exc, gen, caller, earlier, round_cells>>

\* solve: the while condition and lines 298-301
WhileCheck ==
    /\ pc = "while"
    /\ IF SolutionLen < Cardinality(DOMAIN horizontal_runs) /\ iterations < MaxRounds
       THEN /\ all_tested' = TRUE
            /\ iterations' = iterations + 1
            /\ last_filled' = current_filled
            /\ current_filled' = 0
            /\ ri' = 1
            /\ pc' = "fill"
            /\ round_cells' = [round_cells EXCEPT !.now = 0, !.before = round_cells.now]
       ELSE /\ pc' = "finish"
            /\ UNCHANGED <<all_tested, iterations, last_filled, current_filled, ri,
                           round_cells>>
    /\ UNCHANGED <<puzzle, memo, board, solution, solution_is_str, records,
                   coord_changes, digit_coords, limit_log2, testing, printed,
                   exc, gen, caller, earlier>>

\* solve: current_filled += run.fill_cells() for the run at ri
FillStep ==
    /\ pc = "fill" /\ ri <= Len(AllRuns)
    /\ IF solution_is_str
       THEN /\ digit_coords' = [digit_coords EXCEPT ![AllRuns[ri]] = FreshDigitCoords]
            /\ exc' = "TypeError" /\ pc' = "raised"
            /\ UNCHANGED <<solution, coord_changes, current_filled, ri, round_cells>>
       ELSE \E m \in {fill_cells(Frame(solution, coord_changes, digit_coords),
                                   AllRuns[ri], FALSE)} :
               /\ solution' = m.sol
               /\ coord_changes' = m.log
               /\ digit_coords' = m.dc
               /\ exc' = m.exc
               /\ round_cells' = [round_cells EXCEPT !.now =
                      @ + Cardinality(DOMAIN m.sol) - Cardinality(DOMAIN solution)]
               /\ IF m.exc # ""
                  THEN pc' = "raised" /\ UNCHANGED <<current_filled, ri>>
                  ELSE /\ current_filled' = current_filled + m.ret
                       /\ ri' = ri + 1
                       /\ pc' = pc
    /\ UNCHANGED <<puzzle, memo, board, solution_is_str, records, iterations,
                   last_filled, limit_log2, all_tested, testing, printed, gen, caller, earlier>>

\* solve: "if last_filled == 0" after the fill loop
FillDone ==
    /\ pc = "fill" /\ ri > Len(AllRuns)
    /\ IF last_filled = 0
       THEN /\ pc' = "test" /\ ri' = 1
            /\ round_cells' = [round_cells EXCEPT !.entered = SolutionLen,
                                                  !.budget = limit_log2]
       ELSE pc' = "while" /\ ri' = ri /\ UNCHANGED round_cells
    /\ UNCHANGED <<puzzle, memo, board, solution, solution_is_str, records,
                   coord_changes, digit_coords, locals, testing, printed, exc, gen, caller, earlier>>

\* solve: all_tested &= run.test_possibilities(limit) for the run at ri, up to
\* the call of _test
TestStep ==
    /\ pc = "test" /\ ri <= Len(AllRuns)
    /\ IF solution_is_str
       THEN /\ exc' = "TypeError" /\ pc' = "raised"
            /\ UNCHANGED <<memo, ri, all_tested, testing>>
       ELSE \E required_list \in ListOrders(get_digits(AllRuns[ri], solution).required) :
            \E listed \in ListingsOf(SubSequences(AllRuns[ri], solution) \ DOMAIN memo) :
              \E cs \in {Candidates(AllRuns[ri], solution, required_list)} :
                 /\ memo' = Cached(memo, listed, AllRuns[ri], solution)
                 /\ IF WithinLimit(Len(cs), limit_log2) /\ Len(cs) # 0
                    THEN /\ combos' = cs /\ ci' = 1 /\ valid' = <<>>
                         /\ pc' = "cand"
                         /\ UNCHANGED <<ri, all_tested, eliminated, exc>>
                    ELSE /\ all_tested' = (all_tested /\ WithinLimit(Len(cs), limit_log2))
                         /\ ri' = ri + 1
                         /\ UNCHANGED <<pc, testing, exc>>
    /\ UNCHANGED <<puzzle, board, solution, solution_is_str, records,
                   coord_changes, digit_coords, iterations, current_filled,
                   last_filled, limit_log2, printed, gen, caller, earlier, round_cells>>

\* _test: one candidate of value_set is assigned, propagated, registered, undone
Candidate ==
    /\ pc = "cand" /\ ci <= Len(combos)
    /\ \E t \in {TestCandidate(Frame(solution, coord_changes, digit_coords),
                                 AllRuns[ri], combos[ci], solutions, partial,
                                 min_remaining)} :
          /\ solution' = t.m.sol
          /\ coord_changes' = t.m.log
          /\ digit_coords' = t.m.dc
          /\ exc' = t.m.exc
          /\ solutions' = t.reg.solutions
          /\ partial' = t.reg.partial
          /\ min_remaining' = t.reg.min_remaining
          /\ eliminated' = t.eliminated
          /\ IF t.m.exc # ""
             THEN pc' = "raised" /\ UNCHANGED <<ci, valid>>
             ELSE /\ valid' = IF t.eliminated THEN valid ELSE Append(valid, combos[ci])
                  /\ ci' = ci + 1
                  /\ pc' = pc
    /\ UNCHANGED <<puzzle, memo, board, solution_is_str, locals, ri, combos,
                   printed, gen, caller, earlier, round_cells>>

\* _test: "if len(valid) == 1" after the candidates, and the return of
\* test_possibilities to solve
Commit ==
    /\ pc = "cand" /\ ci > Len(combos)
    /\ \E m \in {TestCommit(Frame(solution, coord_changes, digit_coords),
                              AllRuns[ri], valid)} :
          /\ solution' = m.sol
          /\ coord_changes' = m.log
          /\ exc' = m.exc
          /\ IF m.exc # "" THEN pc' = "raised" /\ UNCHANGED ri
             ELSE pc' = "test" /\ ri' = ri + 1
    /\ UNCHANGED <<puzzle, memo, board, solution_is_str, records, digit_coords,
                   locals, testing, printed, gen, caller, earlier, round_cells>>

\* limit *= 2, on the exponent
Doubled(log2) == log2 + 1

\* solve: lines 307-314 after the test loop
TestDone ==
    /\ pc = "test" /\ ri > Len(AllRuns)
    /\ IF all_tested /\ min_remaining <= 0
       THEN pc' = "finish" /\ UNCHANGED <<limit_log2, solution_is_str>>
       ELSE /\ pc' = "while"
            /\ limit_log2' = Doubled(limit_log2)
            /\ solution_is_str' =
                 (solution_is_str \/
                  (all_tested /\ Len(solutions) > 0 /\ HexDigestLen = min_remaining))
    /\ UNCHANGED <<puzzle, memo, board, solution, records, coord_changes,
                   digit_coords, iterations, current_filled, last_filled,
                   all_tested, ri, testing, printed, exc, gen, caller, earlier, round_cells>>

\* solve: lines 317-322
Finish ==
    /\ pc = "finish"
    /\ IF SolutionLen # Cardinality(DOMAIN horizontal_runs)
       THEN /\ printed' = [none |-> TRUE,
                           records |-> print_solutions(solutions, partial, min_remaining)]
            /\ pc' = "done"
            /\ UNCHANGED <<records, exc>>
       ELSE IF solution_is_str
       THEN /\ min_remaining' = 0 /\ exc' = "AttributeError" /\ pc' = "raised"
            /\ UNCHANGED <<solutions, partial, printed>>
       ELSE \E a \in {add_solution(solution, solutions, partial, 0)} :
               /\ min_remaining' = 0
               /\ solutions' = a.solutions
               /\ partial' = a.partial
               /\ printed' = [none |-> FALSE,
                              records |-> print_solutions(a.solutions, a.partial, 0)]
               /\ pc' = "done"
               /\ exc' = exc
    /\ UNCHANGED <<puzzle, memo, board, solution, solution_is_str, coord_changes,
                   digit_coords, locals, ri, testing, gen, caller, earlier, round_cells>>

\* solve_kakuro: solver.solve() returned, the try block ends
Return ==
    /\ pc = "done" /\ caller.pc = "try"
    /\ caller' = [caller EXCEPT !.pc = "returned"]
    /\ UNCHANGED <<puzzle, memo, board, solution, solution_is_str, records,
                   coord_changes, digit_coords, locals, pc, ri, testing, printed,
                   exc, gen, earlier, round_cells>>

\* solve_kakuro: "except Exception as e"; solver.solutions[0] = solver.solution is
\* the record with key 0, and print_solutions raises TypeError at "(x, y) in
\* self.solutions[key]" when that record is the digest string
\* the key 0 of "solver.solutions[0] = solver.solution", written as a list so
\* that it can stand among the digests, none of which holds a 0
Zero == <<0>>

\* solver.solution: the dictionary, or the digest it was rebound to, which is
\* the last key of solver.solutions
Store ==
    LET digests == SelectSeq(solutions, LAMBDA e : e.key # Zero)
    IN IF solution_is_str THEN digests[Len(digests)].key ELSE solution

Except ==
    /\ pc = "raised" /\ caller.pc = "try"
    /\ IF ~caller.solver
       THEN /\ caller' = [caller EXCEPT !.pc = "returned", !.message = exc]
            /\ UNCHANGED solutions
       ELSE /\ solutions' = Append(solutions, [key |-> Zero, snap |-> Store])
            /\ caller' =
                  IF solution_is_str /\ height > 0 /\ width > 0
                  THEN [caller EXCEPT !.pc = "escaped", !.message = exc,
                           !.records = print_solutions(solutions, partial, min_remaining)]
                  ELSE [caller EXCEPT !.pc = "returned", !.message = exc,
                           !.records = print_solutions(solutions', partial, min_remaining)]
    /\ UNCHANGED <<puzzle, memo, board, solution, solution_is_str, partial,
                   min_remaining, coord_changes, digit_coords, locals, pc, ri,
                   testing, printed, exc, gen, earlier, round_cells>>

Next ==
    \/ SolverInit \/ SolveBegin \/ WhileCheck \/ FillStep \/ FillDone
    \/ TestStep \/ Candidate \/ Commit \/ TestDone \/ Finish
    \/ Return \/ Except

Spec == Init /\ [][Next]_vars

(***************************************************************************)
(* The same puzzle solved twice in one process: when the first Solver has  *)
(* ended, a second Solver is built from the same file.  The class-level    *)
(* Run.coord_changes and Run.min_remaining and the caches of Memoize keep  *)
(* what the first run left in them.                                        *)
(***************************************************************************)
PuzzlesTwice ==
    {Block(a, b, c, d) : a \in 3..MaxTotal, b \in 3..MaxTotal,
                         c \in 3..MaxTotal, d \in 3..MaxTotal}
    \cup {Block(3, 7, 5, 5), Block(6, 6, 7, 5), Block(17, 8, 9, 16), Line(3, 1, 2),
          Grid(3, 3, 3, 3, 3, 3)}

InitTwice ==
    /\ puzzle \in PuzzlesTwice
    /\ memo = <<>>
    /\ runs = <<>> /\ unique_runs_h = <<>> /\ unique_runs_v = <<>>
    /\ horizontal_runs = <<>> /\ vertical_runs = <<>>
    /\ width = 0 /\ height = 0
    /\ solution = <<>> /\ solution_is_str = FALSE
    /\ solutions = <<>> /\ partial = <<>>
    /\ coord_changes = <<>> /\ min_remaining = 0
    /\ digit_coords = <<>>
    /\ iterations = 0 /\ current_filled = 0 /\ last_filled = 0
    /\ limit_log2 = 0 /\ all_tested = TRUE
    /\ pc = "new" /\ ri = 0
    /\ combos = <<>> /\ ci = 0 /\ valid = <<>> /\ eliminated = FALSE
    /\ printed = [none |-> FALSE, records |-> <<>>]
    /\ exc = ""
    /\ gen = GenOff
    /\ caller = CallerTry
    /\ earlier = <<>>
    /\ round_cells = NoCells

\* the first run has ended; its outcome is kept and solve_kakuro is called
\* again on the same file
Again ==
    /\ caller.pc \in {"returned", "escaped"} /\ earlier = <<>>
    /\ earlier' = <<[pc |-> pc, exc |-> exc, printed |-> printed, caller |-> caller]>>
    /\ runs' = <<>> /\ unique_runs_h' = <<>> /\ unique_runs_v' = <<>>
    /\ horizontal_runs' = <<>> /\ vertical_runs' = <<>>
    /\ width' = 0 /\ height' = 0
    /\ solution' = <<>> /\ solution_is_str' = FALSE
    /\ solutions' = <<>> /\ partial' = <<>>
    /\ digit_coords' = <<>>
    /\ iterations' = 0 /\ current_filled' = 0 /\ last_filled' = 0
    /\ limit_log2' = 0 /\ all_tested' = TRUE
    /\ pc' = "new" /\ ri' = 0
    /\ combos' = <<>> /\ ci' = 0 /\ valid' = <<>> /\ eliminated' = FALSE
    /\ printed' = [none |-> FALSE, records |-> <<>>]
    /\ exc' = ""
    /\ caller' = CallerTry
    /\ round_cells' = NoCells
    /\ UNCHANGED <<puzzle, memo, coord_changes, min_remaining, gen>>

NextTwice == Next \/ Again

SpecTwice == InitTwice /\ [][NextTwice]_vars

(***************************************************************************)
(* The combination generator and Run.__init__ called on their own, for     *)
(* every target up to MaxTarget and every count from 2 to MaxCount.        *)
(***************************************************************************)
InitSums ==
    /\ puzzle = <<>>
    /\ memo = <<>>
    /\ runs = <<>> /\ unique_runs_h = <<>> /\ unique_runs_v = <<>>
    /\ horizontal_runs = <<>> /\ vertical_runs = <<>>
    /\ width = 0 /\ height = 0
    /\ solution = <<>> /\ solution_is_str = FALSE
    /\ solutions = <<>> /\ partial = <<>>
    /\ coord_changes = <<>> /\ min_remaining = 0
    /\ digit_coords = <<>>
    /\ iterations = 0 /\ current_filled = 0 /\ last_filled = 0
    /\ limit_log2 = 0 /\ all_tested = TRUE
    /\ pc = "off" /\ ri = 0
    /\ combos = <<>> /\ ci = 0 /\ valid = <<>> /\ eliminated = FALSE
    /\ printed = [none |-> FALSE, records |-> <<>>]
    /\ exc = ""
    /\ gen \in {[GenOff EXCEPT !.pc = "call", !.target = t, !.count = c] :
                   t \in 1..MaxTarget, c \in 2..MaxCount}
    /\ caller = CallerTry
    /\ earlier = <<>>
    /\ round_cells = NoCells

solver == <<puzzle, board, solution, solution_is_str, solutions, partial,
            coord_changes, digit_coords, locals, pc, ri, testing, printed, exc,
            caller, earlier, round_cells>>

CallGetSums ==
    /\ gen.pc = "call"
    /\ gen' = [gen EXCEPT !.pc = "sums", !.sums = get_sums(gen.target, gen.count)]
    /\ UNCHANGED <<memo, min_remaining, solver>>

CallGetUniqueSums ==
    /\ gen.pc = "sums"
    /\ Cardinality(get_unique_sums(gen.target, gen.count)) <= MaxOrdered
    /\ \E listed \in ListingsOf({<<gen.target, gen.count>>} \ DOMAIN memo) :
       \E call \in {Memoize(memo, listed, gen.target, gen.count)} :
          /\ memo' = call.memo
          /\ gen' = [gen EXCEPT !.pc = "unique", !.unique = ToSet(call.value)]
    /\ UNCHANGED <<min_remaining, solver>>

\* Run(total, length, [1, 1], False, solver) for a solver without runs
CallRun ==
    /\ gen.pc = "unique"
    /\ \E listed \in ListingsOf({<<gen.target, gen.count>>} \ DOMAIN memo) :
       \E b \in {Run__init__([NewSolver EXCEPT !.memo = memo], gen.target,
                              gen.count, <<1, 1>>, FALSE, listed)} :
          /\ memo' = b.memo
          /\ min_remaining' = b.min_remaining
          /\ gen' = [gen EXCEPT !.pc = "run", !.run = b]
    /\ UNCHANGED solver

NextSums == CallGetSums \/ CallGetUniqueSums \/ CallRun

SpecSums == InitSums /\ [][NextSums]_vars

(***************************************************************************)
(* parse_sequence called on its own, on a Solver without runs, for every   *)
(* row or column of at most MaxRow cells: a blocking marker (-1), an empty *)
(* cell (0) or a clue.                                                     *)
(***************************************************************************)
MaxRow == 4

\* the cells of a line after split(','): "XX" is -1, "00" is 0, a clue is itself
Tokens == {-1, 0, 3, 6}

Rows == UNION {[1..n -> Tokens] : n \in 1..MaxRow}

InitParse ==
    /\ puzzle = <<>>
    /\ memo = <<>>
    /\ runs = <<>> /\ unique_runs_h = <<>> /\ unique_runs_v = <<>>
    /\ horizontal_runs = <<>> /\ vertical_runs = <<>>
    /\ width = 0 /\ height = 0
    /\ solution = <<>> /\ solution_is_str = FALSE
    /\ solutions = <<>> /\ partial = <<>>
    /\ coord_changes = <<>> /\ min_remaining = 0
    /\ digit_coords = <<>>
    /\ iterations = 0 /\ current_filled = 0 /\ last_filled = 0
    /\ limit_log2 = 0 /\ all_tested = TRUE
    /\ pc = "off" /\ ri = 0
    /\ combos = <<>> /\ ci = 0 /\ valid = <<>> /\ eliminated = FALSE
    /\ printed = [none |-> FALSE, records |-> <<>>]
    /\ exc = ""
    /\ gen \in {[pc |-> "cells", cells |-> row, vert |-> v, solver |-> NewSolver] :
                   row \in Rows, v \in BOOLEAN}
    /\ caller = CallerTry
    /\ earlier = <<>>
    /\ round_cells = NoCells

\* self.parse_sequence(1, cells, run_dict, vert)
CallParseSequence ==
    /\ gen.pc = "cells"
    /\ \E lists \in ListingsOf(
             parse_sequence([NewSolver EXCEPT !.memo = memo], 1, gen.cells,
                            gen.vert, AnyListing).asked \ DOMAIN memo) :
       \E b \in {parse_sequence([NewSolver EXCEPT !.memo = memo], 1, gen.cells,
                                 gen.vert, lists)} :
          /\ memo' = b.memo
          /\ min_remaining' = IF b.asked = {} THEN min_remaining ELSE b.min_remaining
          /\ gen' = [gen EXCEPT !.pc = "parsed", !.solver = b]
    /\ UNCHANGED solver

NextParse == CallParseSequence

SpecParse == InitParse /\ [][NextParse]_vars

(***************************************************************************)
(* Properties.                                                             *)
(***************************************************************************)
\* the ascending tuples of count distinct digits of 1..9 that sum to target
RefTuples(target, count) ==
    {SortSet(T) : T \in {U \in SUBSET Digits :
                            Cardinality(U) = count /\ SeqSum(SortSet(U)) = target}}

\* no count distinct digits of 1..9 sum to target: the sums of count distinct
\* digits are the numbers from 1 + ... + count to 9 + ... + (10 - count)
NoTuple(target, count) ==
    ~(/\ count \in 1..9
      /\ count * (count + 1) <= 2 * target
      /\ 2 * target <= count * (19 - count))

\* the sequences of count distinct digits of 1..9 that sum to target
RefOrdered(target, count) ==
    UNION {Perms(ToSet(tp)) : tp \in RefTuples(target, count)}

\* how many cells of a snapshot hold each digit
DigitCount(snap) == [d \in Digits |-> Cardinality({c \in DOMAIN snap : snap[c] = d})]

Converged == ~solution_is_str /\ Cardinality(DOMAIN solution) = Cardinality(DOMAIN horizontal_runs)

\* the cells of run r hold distinct digits of 1..9 that sum to its total
RunSolved(r) ==
    LET coords == runs[r].coords
    IN /\ \A i \in DOMAIN coords : coords[i] \in DOMAIN solution
                                   /\ solution[coords[i]] \in Digits
       /\ \A i, j \in DOMAIN coords : i # j => solution[coords[i]] # solution[coords[j]]
       /\ SeqSum([i \in DOMAIN coords |-> solution[coords[i]]]) = runs[r].total

\* C1: when solve ends converged, every horizontal and vertical Run holds
\* pairwise distinct digits of 1..9 that sum to the Run's total.
C1_ConvergedRunsSolved ==
    (pc = "done" /\ Converged) => \A r \in DOMAIN runs : RunSolved(r)

\* the propagation of the candidate tested last, computed again from the
\* state it was rolled back to
LastPropagation ==
    LET Propagate(a) == PropagateLoop(a.m, AllRuns[ri], a.test_coords, 1)
    IN Propagate(AssignLoop(Frame(solution, coord_changes, digit_coords),
                            AllRuns[ri], combos[ci - 1], 1, 1, <<>>))

\* C2: a candidate of _test that is assigned, propagated (recursively) and
\* undone leaves the Assignment Store and the undo log as they were before
\* its first assignment, with or without a contradiction.
C2_Rollback ==
    [][(pc = "cand" /\ ci <= Len(combos) /\ pc' # "raised")
          => (solution' = solution /\ coord_changes' = coord_changes)]_vars

\* a candidate was rolled back after its propagation had assigned cells of
\* other runs and met a contradiction
C2_Witness ==
    /\ pc = "cand" /\ ci > 1 /\ eliminated
    /\ LastPropagation.ret = -1
    /\ Len(LastPropagation.log) >= Len(coord_changes) + 3

\* C3: every combination stored in the sequences of a constructed Run has
\* length entries, all digits of 1..9, none repeated, summing to total, and
\* the sequences are not empty.
C3_Sequences ==
    (gen.pc = "run" /\ gen.run.exc = "") =>
        \A r \in DOMAIN gen.run.runs :
            LET run == gen.run.runs[r]
            IN /\ Len(run.sequences) > 0
               /\ \A n \in DOMAIN run.sequences :
                     LET seq == run.sequences[n]
                     IN /\ Len(seq) = run.length
                        /\ ToSet(seq) \subseteq Digits
                        /\ Cardinality(ToSet(seq)) = Len(seq)
                        /\ SeqSum(seq) = run.total

\* a Run of three cells was constructed with several combinations
C3_Witness ==
    /\ gen.pc = "run" /\ gen.run.exc = "" /\ gen.count = 3
    /\ Len(gen.run.runs) = 1
    /\ Len(gen.run.runs[1].sequences) >= 3

\* C4: get_unique_sums(target, count) is exactly the set of ascending tuples
\* of count distinct digits of 1..9 that sum to target, each once, and
\* get_unique_sums(6, 2) is {(1, 5), (2, 4)}; where the call is not made
\* because the set is larger than MaxOrdered, the set it would list is that one.
C4_UniqueSums ==
    /\ gen.pc \in {"unique", "run"} =>
          /\ gen.unique = RefTuples(gen.target, gen.count)
          /\ gen.unique = {} <=> NoTuple(gen.target, gen.count)
          /\ (gen.target = 6 /\ gen.count = 2) => gen.unique = {<<1, 5>>, <<2, 4>>}
    /\ gen.pc = "sums" =>
          get_unique_sums(gen.target, gen.count) = RefTuples(gen.target, gen.count)

\* get_unique_sums(6, 2) was called and returned the two tuples
C4_Witness ==
    /\ gen.pc = "unique" /\ gen.target = 6 /\ gen.count = 2
    /\ gen.unique = {<<1, 5>>, <<2, 4>>}

\* C5: get_sums(target, count) returns every ordered sequence of count
\* distinct digits of 1..9 that sums to target, each exactly once.
C5_AllOrderedSequences ==
    gen.pc \in {"sums", "unique", "run"} =>
        /\ ToSet(gen.sums) = RefOrdered(gen.target, gen.count)
        /\ Len(gen.sums) = Cardinality(RefOrdered(gen.target, gen.count))

\* the Run identities entered in the lists and tables of the Solver
Registered ==
    ToSet(unique_runs_h) \cup ToSet(unique_runs_v)
    \cup {horizontal_runs[c] : c \in DOMAIN horizontal_runs}
    \cup {vertical_runs[c] : c \in DOMAIN vertical_runs}

\* C6: a run whose (total, length) has no digit combination makes the
\* construction raise before any fill_cells or test_possibilities call, the
\* run is in no list or table of the Solver, and get_sums and
\* get_unique_sums return an empty result for it.
C6_MalformedRun ==
    pc # "new" =>
    \A k \in AskedBy(puzzle, <<>>) :
        NoTuple(k[1], k[2]) =>
            /\ pc = "raised" /\ exc = "Exception"
            /\ limit_log2 = 0 /\ iterations = 0
            /\ solution = <<>> /\ coord_changes = <<>>
            /\ get_sums(k[1], k[2]) = <<>>
            /\ get_unique_sums(k[1], k[2]) = {}
            /\ k \in DOMAIN memo /\ memo[k] = <<>>
            /\ Registered \subseteq DOMAIN runs
            /\ \A r \in DOMAIN runs : <<runs[r].total, runs[r].length>> # k

\* the construction raised on a run without combinations after it had added
\* other runs
C6_Witness ==
    /\ pc = "raised" /\ exc = "Exception"
    /\ Len(runs) >= 1
    /\ \E k \in AskedBy(puzzle, <<>>) : NoTuple(k[1], k[2]) /\ memo[k] = <<>>

\* C7: solve runs at most 45 rounds and every call made within a round
\* returns: no exception is raised once the board is constructed.
C7_SolveReturns ==
    /\ iterations <= MaxRounds
    /\ pc = "raised" => limit_log2 = 0

\* C8: when solve ends converged, the final Assignment Store is one of the
\* Solution Records and print_solutions reports it.
C8_FinalRecord ==
    (pc = "done" /\ Converged) =>
        /\ \E i \in DOMAIN solutions : solutions[i].snap = solution
        /\ \E i \in DOMAIN printed.records : printed.records[i].snap = solution

\* C9: when solve ends without convergence, every partial record reported
\* has the smallest remaining count of the partial records stored, and a
\* record is reported if a partial record was stored.
C9_BestPartial ==
    (pc = "done" /\ printed.none) =>
        /\ \A i \in DOMAIN printed.records :
              printed.records[i].key \in DOMAIN partial =>
                  \A k \in DOMAIN partial : partial[printed.records[i].key] <= partial[k]
        /\ DOMAIN partial # {} => printed.records # <<>>

\* solve ended without convergence with partial records of different counts
\* stored, and reported a partial record
C9_Witness ==
    /\ pc = "done" /\ printed.none
    /\ \E k1, k2 \in DOMAIN partial : partial[k1] < partial[k2]
    /\ \E i \in DOMAIN printed.records : printed.records[i].key \in DOMAIN partial

\* C10: add_solution stores a snapshot, and returns True, exactly when no
\* stored record has the same multiset of digits, and otherwise leaves
\* solutions and partial unchanged; no two assignments stored or reported
\* have the same multiset of digits (the digest that solve_kakuro stores
\* under the key 0 once the store was rebound to it is not an assignment).
C10_Dedup ==
    LET Assignments ==
            SelectSeq(solutions, LAMBDA e : ~(e.key = Zero /\ solution_is_str))
        Dedup(stored, now) ==
            /\ Cardinality(stored) = Len(Assignments)
            /\ caller.pc = "try" =>
               \A remaining \in 0..1 :
                  LET Stored(a) ==
                          IF now \in stored
                          THEN /\ ~a.new_solution
                               /\ a.solutions = solutions /\ a.partial = partial
                          ELSE /\ a.new_solution
                               /\ Len(a.solutions) = Len(solutions) + 1
                               /\ a.solutions[Len(a.solutions)].snap = solution
                               /\ SubSeq(a.solutions, 1, Len(solutions)) = solutions
                  IN Stored(add_solution(solution, solutions, partial, remaining))
    IN /\ Dedup({DigitCount(Assignments[i].snap) : i \in DOMAIN Assignments},
                DigitCount(solution))
       /\ \A i, j \in DOMAIN printed.records :
             i # j => printed.records[i].snap # printed.records[j].snap

\* solve ended converged on an assignment that add_solution did not store
\* because a record with the same digits in other cells was stored before
C10_Witness ==
    /\ pc = "done" /\ Converged
    /\ \E i \in DOMAIN solutions :
          /\ DigitCount(solutions[i].snap) = DigitCount(solution)
          /\ solutions[i].snap # solution
    /\ \A i \in DOMAIN solutions : solutions[i].snap # solution


\* C11: solve_kakuro never lets an exception escape to its caller: whatever
\* the puzzle, it ends after printing the message of the exception and, where a
\* solver exists, a grid, also when its handler calls print_solutions.
C11_NoEscape ==
    /\ caller.pc # "escaped"
    /\ (caller.pc = "returned" /\ pc = "raised") =>
          /\ caller.message # ""
          /\ caller.solver => caller.records # <<>>


\* the number of consecutive empty cells that follow cell p of a row
Zeros(cells, p) ==
    CHOOSE k \in 0..(Len(cells) - p) :
        /\ \A j \in 1..k : cells[p + j] = 0
        /\ p + k + 1 > Len(cells) \/ cells[p + k + 1] # 0

\* C12: for each positive clue of a row or column parse_sequence builds a run
\* whose cells are exactly the consecutive empty cells that immediately follow
\* the clue; when no empty cell follows a clue (a blocking marker, another clue
\* or the end of the line comes next) construction fails.
C12_ParseSequence ==
    gen.pc = "parsed" =>
        LET cells == gen.cells
            b == gen.solver
            clues == {p \in DOMAIN cells : cells[p] > 0}
            Cell(x) == IF gen.vert THEN <<1, x>> ELSE <<x, 1>>
        IN /\ (\E p \in clues : Zeros(cells, p) = 0) => b.exc # ""
           /\ b.exc = "" =>
                 /\ Len(b.runs) = Cardinality(clues)
                 /\ \A p \in clues : \E r \in DOMAIN b.runs :
                       /\ b.runs[r].total = cells[p]
                       /\ ToSet(b.runs[r].coords) =
                              {Cell(x) : x \in p..(p + Zeros(cells, p) - 1)}


\* every run has more candidates than the budget allows
NoRunWithinBudget ==
    \A i \in DOMAIN AllRuns :
        \A required_list \in ListOrders(get_digits(AllRuns[i], solution).required) :
            ~WithinLimit(Len(Candidates(AllRuns[i], solution, required_list)),
                         limit_log2)

\* C13: test_possibilities runs only in a round that follows a round without a
\* filled cell, never in round 1; the budget is 2 the first time the test loop
\* is begun; each later time it is begun the budget is twice that of the time
\* before if no cell was assigned in between, and the same budget otherwise;
\* and when no run is within the budget the driver meets the next round with
\* the store as it was and no filled cell counted against it, so it enumerates
\* again unless cells were filled or the 45 rounds are used up.
C13_Budget ==
    /\ [](pc \in {"test", "cand"} => iterations >= 2 /\ last_filled = 0)
    /\ [][(pc = "fill" /\ pc' = "test" /\ ~solution_is_str) =>
              IF round_cells.entered = -1 THEN limit_log2 = 1
              ELSE IF Cardinality(DOMAIN solution) = round_cells.entered
              THEN limit_log2 = round_cells.budget + 1
              ELSE limit_log2 = round_cells.budget]_vars
    /\ []((pc = "test" /\ ri = 1 /\ ~solution_is_str /\ NoRunWithinBudget) =>
              current_filled >= 0)
    /\ [][(pc = "test" /\ ri = 1 /\ ~solution_is_str /\ NoRunWithinBudget) =>
              (pc' = "test" /\ solution' = solution /\ ~all_tested')]_vars


\* C14: the board with one horizontal run of length 2 (total 3) whose cells are
\* each crossed by a single-cell vertical run (1 and 2) is accepted by the
\* construction, and solve converges in round 1 with both cells assigned as the
\* vertical runs force them, without a call of test_possibilities.
C14_SingleCellRuns ==
    puzzle = Line(3, 1, 2) =>
        /\ pc \notin {"raised", "test", "cand"}
        /\ pc = "done" =>
              /\ iterations = 1
              /\ solution = [c \in {<<1, 1>>, <<2, 1>>} |-> c[1]]


\* the run of the other orientation through cell c of run r
Crossing(r, c) ==
    CHOOSE q \in DOMAIN runs : runs[q].vert # runs[r].vert /\ c \in ToSet(runs[q].coords)

\* run r has two cells, total 17, no digit yet, and the run crossing cell i
\* admits exactly the digit d[i] of {8, 9}
ForcedPair(r, d) ==
    /\ runs[r].total = 17 /\ runs[r].length = 2
    /\ \A i \in 1..2 :
          /\ runs[r].coords[i] \notin DOMAIN solution
          /\ \E q \in DOMAIN runs :
                runs[q].vert # runs[r].vert /\ runs[r].coords[i] \in ToSet(runs[q].coords)
          /\ get_digits(Crossing(r, runs[r].coords[i]), solution).all \cap {8, 9}
                = {d[i]}

\* C15: for a 2-cell run with total 17 and both cells unassigned, where the
\* crossing run at one cell admits 8 but not 9 and at the other 9 but not 8, one
\* fill_cells() pass of solve on that run assigns 8 and 9 to the respective
\* cells and returns 2; no candidate is enumerated for it.
C15_ForcedPair ==
    [][\A d \in {<<8, 9>>, <<9, 8>>} :
          (/\ pc = "fill" /\ ri <= Len(AllRuns) /\ ~solution_is_str
           /\ ForcedPair(AllRuns[ri], d)) =>
              /\ pc' = "fill" /\ ri' = ri + 1
              /\ current_filled' = current_filled + 2
              /\ DOMAIN solution' = DOMAIN solution \cup ToSet(runs[AllRuns[ri]].coords)
              /\ \A i \in 1..2 : solution'[runs[AllRuns[ri]].coords[i]] = d[i]
              /\ \A c \in DOMAIN solution : solution'[c] = solution[c]
              /\ records' = records]_vars

\* round 1 on Block(17, 8, 9, 16): fill_cells of the run with total 17 has just
\* assigned 8 and 9 and returned 2
C15_Witness ==
    /\ puzzle = Block(17, 8, 9, 16)
    /\ pc = "fill" /\ iterations = 1 /\ ri = 2
    /\ runs[AllRuns[1]].total = 17
    /\ solution = (<<1, 1>> :> 8 @@ <<2, 1>> :> 9)
    /\ current_filled = 2 /\ solutions = <<>>


\* C16: when the same puzzle is solved a second time in the same process, with
\* Run.coord_changes, Run.min_remaining and the memo caches as the first run
\* left them, the second run ends as the first did and reports the same
\* Solution Records (the same coordinate -> digit assignments).
C16_Deterministic ==
    /\ (Len(earlier) = 1 /\ pc \in {"done", "raised"}) =>
          /\ pc = earlier[1].pc /\ exc = earlier[1].exc
          /\ printed = earlier[1].printed
    /\ (Len(earlier) = 1 /\ caller.pc \in {"returned", "escaped"}) =>
          caller = earlier[1].caller

\* the second run has reported a record found by enumeration while the undo log
\* still held the entries of the first run
C16_Witness ==
    /\ Len(earlier) = 1 /\ caller.pc = "returned" /\ pc = "done"
    /\ printed.records # <<>> /\ limit_log2 >= 2
    /\ Len(coord_changes) > Cardinality(DOMAIN solution)
    /\ Cardinality(DOMAIN solution) > 0


\* the stored combinations of run r that contain every digit found in it
Consistent(r) ==
    {ToSet(runs[r].sequences[n]) : n \in
        {n \in DOMAIN runs[r].sequences :
            ToSet(_get_found(r, solution)) \subseteq ToSet(runs[r].sequences[n])}}

\* C17: get_digits returns as all_digits the union of the stored combinations
\* that contain the digits found in the run, minus those digits, and as
\* required_digits exactly the intersection of these combinations, minus the
\* found digits, in whatever order the combinations are stored.
C17_GetDigits ==
    ~solution_is_str =>
        \A r \in DOMAIN runs :
            Consistent(r) # {} =>
                /\ get_digits(r, solution).all =
                       UNION Consistent(r) \ ToSet(_get_found(r, solution))
                /\ get_digits(r, solution).required =
                       {d \in Digits : \A c \in Consistent(r) : d \in c}
                           \ ToSet(_get_found(r, solution))


\* C18: a digit that fill_cells commits to a cell is admitted by the run as the
\* store stands at that commit, the digits committed earlier in the same pass
\* included; so one fill_cells() pass of solve never gives two cells of its run
\* the same digit.
C18_ArcConsistent ==
    [][(pc = "fill" /\ ri <= Len(AllRuns) /\ ~solution_is_str /\ pc' = "fill") =>
          \A c1, c2 \in ToSet(runs[AllRuns[ri]].coords) \ DOMAIN solution :
              (c1 # c2 /\ c1 \in DOMAIN solution' /\ c2 \in DOMAIN solution') =>
                  solution'[c1] # solution'[c2]]_vars


\* C19: in _test a candidate whose propagation signals a contradiction (a
\* fill_cells(True) returned -1) registers no Solution Record, full or partial,
\* and does not change min_remaining.
C19_Discarded ==
    [][(pc = "cand" /\ ci <= Len(combos) /\ pc' = "cand" /\ eliminated') =>
          /\ solutions' = solutions /\ partial' = partial
          /\ min_remaining' = min_remaining]_vars


\* the candidates test_possibilities is to produce for run r
RefCandidates(r) ==
    LET d == get_digits(r, solution)
        res == Residual(r, solution)
    IN IF Cardinality(d.all) = Cardinality(d.required) /\ Cardinality(d.all) > 0
       THEN Perms(d.required)
       ELSE IF res.length = 2
       THEN {p \in Digits \X Digits : p[1] # p[2] /\ p[1] + p[2] = res.remaining}
       ELSE {}

\* C20: when every candidate digit of the run is a required digit (one or
\* more), test_possibilities generates every permutation of the required
\* digits; otherwise, when exactly two cells of the run are unassigned, it
\* generates every ordered pair of distinct digits of 1..9 that sums to the
\* residual target.
C20_CandidatesComplete ==
    (pc = "test" /\ ri <= Len(AllRuns) /\ ~solution_is_str) =>
        \A required_list \in ListOrders(get_digits(AllRuns[ri], solution).required) :
            ToSet(Candidates(AllRuns[ri], solution, required_list))
                = RefCandidates(AllRuns[ri])


\* the cells of run r that hold no digit, in cell order
OpenCells(r) == SelectSeq(runs[r].coords, LAMBDA c : c \notin DOMAIN solution)

\* the store after the open cells of run r took the digits of values in order
Completed(r, values) ==
    [c \in DOMAIN solution \cup ToSet(OpenCells(r)) |->
        IF c \in DOMAIN solution THEN solution[c]
        ELSE values[CHOOSE k \in DOMAIN OpenCells(r) : OpenCells(r)[k] = c]]

\* C21: _test changes the Assignment Store only by a forced deduction: every
\* tested candidate leaves the store as it was, and at the end, if exactly one
\* candidate survived, the cells of the run that were open hold that
\* candidate's digits in cell order and no other cell changed; with no
\* survivor or with two or more the store is the store on entry.
C21_ForcedDeduction ==
    /\ [][(pc = "cand" /\ ci <= Len(combos) /\ pc' = "cand") =>
              solution' = solution]_vars
    /\ [][(pc = "cand" /\ ci > Len(combos)) =>
              /\ pc' = "test"
              /\ IF Len(valid) = 1
                 THEN /\ Len(valid[1]) = Len(OpenCells(AllRuns[ri]))
                      /\ solution' = Completed(AllRuns[ri], valid[1])
                 ELSE solution' = solution]_vars

\* _test has ended after two or more candidates of which one survived, and
\* the cells of its run hold the survivor
C21_Witness ==
    /\ pc = "test" /\ ri > 1 /\ ~solution_is_str
    /\ Len(combos) >= 2 /\ ci > Len(combos) /\ Len(valid) = 1
    /\ Len(valid[1]) = 2
    /\ \A k \in 1..2 :
          /\ runs[AllRuns[ri - 1]].coords[k] \in DOMAIN solution
          /\ solution[runs[AllRuns[ri - 1]].coords[k]] = valid[1][k]
    /\ coord_changes # <<>>
    /\ SubSeq(coord_changes, Len(coord_changes) - 1, Len(coord_changes))
          = runs[AllRuns[ri - 1]].coords

\* C22: solve runs test_possibilities in a round (Stalled) only when the
\* fill_cells calls of the round before assigned no cell, also when one of
\* those calls returned -1.
C22_StalledOnlyAfterNoFill ==
    pc \in {"test", "cand"} => round_cells.before = 0

\* C23: the Assignment Store stays a mapping from coordinates to digits and
\* is never replaced wholesale: the step that ends the test_possibilities loop
\* of solve, partial-solution fallback included, leaves the store as it is.
C23_StoreNotReplaced ==
    [][(pc = "test" /\ ri > Len(AllRuns)) =>
          /\ solution_is_str' = solution_is_str
          /\ ~solution_is_str'
          /\ solution' = solution]_vars

\* the propagation of the candidate about to be tested
NextPropagation ==
    LET Propagate(a) == PropagateLoop(a.m, AllRuns[ri], a.test_coords, 1)
    IN Propagate(AssignLoop(Frame(solution, coord_changes, digit_coords),
                            AllRuns[ri], combos[ci], 1, 1, <<>>))

\* the cells of the board a store leaves unassigned
Unassigned(sol) ==
    Cardinality(DOMAIN horizontal_runs) - Cardinality(DOMAIN sol)

\* C24: in _test, a candidate whose propagation leaves cells unassigned
\* registers a partial record exactly when the number of unassigned cells is
\* at most Run.min_remaining: the record set then holds a record under the
\* digest of that store, marked partial with that count, which becomes the
\* new Run.min_remaining; otherwise records and count are left alone.
\* Run.min_remaining never increases during solve.
C24_BestRemaining ==
    /\ [][(pc = "cand" /\ ci <= Len(combos) /\ pc' # "raised"
              /\ Unassigned(NextPropagation.sol) > 0) =>
            IF Unassigned(NextPropagation.sol) <= min_remaining
            THEN /\ min_remaining' = Unassigned(NextPropagation.sol)
                 /\ \E i \in DOMAIN solutions' :
                       /\ solutions'[i].key = sorted(Values(NextPropagation.sol))
                       /\ Unassigned(solutions'[i].snap) = min_remaining'
                       /\ solutions'[i].key \in DOMAIN partial'
                       /\ partial'[solutions'[i].key] = min_remaining'
                 /\ Len(solutions') <= Len(solutions) + 1
            ELSE /\ solutions' = solutions
                 /\ partial' = partial
                 /\ min_remaining' = min_remaining]_vars
    /\ [][(pc \in {"while", "fill", "test", "cand", "finish"}) =>
              (min_remaining' <= min_remaining)]_vars

\* a candidate left as many cells unassigned as the best count before it and
\* was registered as a second partial record with that count
C24_Witness ==
    /\ pc = "cand" /\ ci > 1 /\ Len(solutions) >= 2
    /\ min_remaining > 0
    /\ Unassigned(LastPropagation.sol) = min_remaining
    /\ solutions[Len(solutions)].snap = LastPropagation.sol
    /\ \A i \in {Len(solutions) - 1, Len(solutions)} :
          /\ solutions[i].key \in DOMAIN partial
          /\ partial[solutions[i].key] = min_remaining

\* C25: in a fill_cells call that does not return -1, every digit still in
\* required_digits for which exactly one unfilled cell of the run was found to
\* be a candidate is assigned to that cell by _fill_unique, and every digit
\* _fill_unique assigns was found to be a candidate of its cell in the call.
\* Checked for the calls of solve and for the calls made to propagate a
\* candidate of _test.
C25_HiddenSingle ==
    /\ [][(pc = "fill" /\ ri <= Len(AllRuns) /\ ~solution_is_str) =>
            \A m \in {fill_cells(Frame(solution, coord_changes, digit_coords),
                                  AllRuns[ri], FALSE)} :
                (m.exc = "" /\ m.ret # -1) =>
                    (solution' = m.sol /\ m.missed = {} /\ m.alien = {})]_vars
    /\ [][(pc = "cand" /\ ci <= Len(combos)) =>
            \A m \in {NextPropagation} : m.missed = {} /\ m.alien = {}]_vars

\* n candidates are no more than the limit of the round; a run has fewer
\* than 2 ^ 20 candidates
AtMostLimit(n) == limit_log2 >= 20 \/ n <= 2 ^ limit_log2

\* C26: test_possibilities hands its candidates to _test exactly when their
\* number is not zero and at most limit, and returns True exactly when their
\* number is at most limit, also when there is none; when the number exceeds
\* limit the store, the undo log and the records are left unchanged.
C26_WithinLimit ==
    /\ [][(pc = "test" /\ ri <= Len(AllRuns) /\ ~solution_is_str) =>
            \E rl \in ListOrders(get_digits(AllRuns[ri], solution).required) :
               \E n \in {Len(Candidates(AllRuns[ri], solution, rl))} :
                  /\ (pc' = "cand") <=> (n # 0 /\ AtMostLimit(n))
                  /\ (pc' = "cand") => (Len(combos') = n /\ ci' = 1)
                  /\ (pc' # "cand") =>
                        (all_tested' = (all_tested /\ AtMostLimit(n)) /\ ri' = ri + 1)
                  /\ ~AtMostLimit(n) =>
                        /\ solution' = solution
                        /\ coord_changes' = coord_changes
                        /\ solutions' = solutions
                        /\ partial' = partial]_vars
    /\ [][(pc = "cand" /\ ci > Len(combos) /\ pc' = "test") =>
            (all_tested' = all_tested /\ AtMostLimit(Len(combos)))]_vars

\* test_possibilities handed to _test exactly as many candidates as the limit
C26_Witness ==
    /\ pc = "cand" /\ ci = 1 /\ limit_log2 < 20
    /\ Len(combos) = 2 ^ limit_log2

\* the cells of run r that hold a digit another cell of the run holds too
Duplicated(r) ==
    {c \in ToSet(runs[r].coords) \cap DOMAIN solution :
        \E e \in ToSet(runs[r].coords) \cap DOMAIN solution :
            e # c /\ solution[e] = solution[c]}

\* C27: a fill_cells() call of solve returns -1 or the number of cells it
\* assigned: the store grows by exactly the count returned and the undo log
\* by the cells assigned, no assignment is changed or removed, and a run that
\* already holds a digit twice gets -1 with the store unchanged.
C27_FilledCount ==
    [][(pc = "fill" /\ ri <= Len(AllRuns) /\ ~solution_is_str /\ pc' # "raised") =>
          \E ret \in {current_filled' - current_filled} :
             /\ ret >= -1
             /\ \A c \in DOMAIN solution :
                   c \in DOMAIN solution' /\ solution'[c] = solution[c]
             /\ ret # -1 =>
                   /\ Cardinality(DOMAIN solution') = Cardinality(DOMAIN solution) + ret
                   /\ Len(coord_changes') = Len(coord_changes) + ret
             /\ ToSet(SubSeq(coord_changes', Len(coord_changes) + 1, Len(coord_changes')))
                   = DOMAIN solution' \ DOMAIN solution
             /\ Duplicated(AllRuns[ri]) # {} => (ret = -1 /\ solution' = solution)]_vars

\* the first fill_cells() call of solve assigned several cells and returned
\* their number
C27_Witness ==
    /\ pc = "fill" /\ ri = 2 /\ iterations = 1
    /\ current_filled >= 2
    /\ Cardinality(DOMAIN solution) = current_filled
    /\ Len(coord_changes) = current_filled

\* the coordinates present in the Assignment Store; a store rebound to a
\* digest string holds none
StoreCoords == IF solution_is_str THEN {} ELSE DOMAIN solution

\* C28: while the first Solver of a process is in solve, between any two of
\* its operations the undo log Run.coord_changes lists exactly the
\* coordinates of the Assignment Store, each once, and undo neither pops an
\* empty log nor deletes a coordinate that is not assigned.
C28_UndoLog ==
    /\ pc \in {"while", "fill", "test", "cand", "finish"} =>
          /\ ToSet(coord_changes) = StoreCoords
          /\ Cardinality(ToSet(coord_changes)) = Len(coord_changes)
    /\ exc \notin {"IndexError", "KeyError"}

\* C29: the fill_cells(True) calls that propagate a candidate of _test all
\* return; a call recurses only after cells were assigned, so the calls
\* active at once are at most one more than the cells assigned since the
\* candidate, and at most the playable cells; no assignment is removed; after
\* the first -1 no call is made, no cell is assigned and every enclosing
\* call returns -1, which eliminates the candidate.
C29_Propagation ==
    [][(pc = "cand" /\ ci <= Len(combos) /\ pc' # "raised") =>
          \A m \in {NextPropagation} :
             /\ m.stack = <<>>
             /\ m.deep <= Cardinality(DOMAIN horizontal_runs)
             /\ m.deep <= 1 + Cardinality(DOMAIN m.sol) - Cardinality(DOMAIN solution)
                               - Len(OpenCells(AllRuns[ri]))
             /\ \A c \in DOMAIN solution : c \in DOMAIN m.sol /\ m.sol[c] = solution[c]
             /\ ~m.late
             /\ m.dead <=> m.ret = -1
             /\ eliminated' = m.dead]_vars

\* a candidate was eliminated by a -1 that came up from a recursive call
C29_Witness ==
    /\ pc = "cand" /\ ci > 1 /\ eliminated
    /\ LastPropagation.dead /\ ~LastPropagation.late
    /\ LastPropagation.deep >= 2

====
